---- MODULE Spec2Model ----
(***************************************************************************)
(* A model of goex/exec_engine/db_manager.py: one adapter instance         *)
(* (SQLiteManager, MySQLManager, PostgreSQLManager or MongoDBManager),     *)
(* the attributes its methods read and write (conn, cursor, db, schema),   *)
(* and the part of the native drivers the methods touch: the connection    *)
(* objects they open, each connection's cursor and pending transaction,    *)
(* and the database's committed catalog and rows.                          *)
(*                                                                         *)
(* A Python attribute that was never assigned is Unset; reading it raises  *)
(* AttributeError.  A method's outcome is a record: kind "return" with a   *)
(* typed value, or kind "raise" with the exception's name.                 *)
(***************************************************************************)
EXTENDS Integers, Sequences, FiniteSets, TLC

\* ------------------------------------------------------------------ bounds
\* native connections one adapter may open in a run
MaxConnects == 2
\* rows / documents a table or collection may hold (their keys are 1..MaxRows)
MaxRows == 2

Rows == 1..MaxRows

Backends == {"sqlite", "mysql", "postgresql", "mongodb"}

\* the one user table / collection of the model, and the document store's
\* reserved-prefix collection (created by the profile command)
UserTable == "t"
SystemCollection == "system.profile"

\* ------------------------------------------------------------------ state
VARIABLES
    backend,            \* which adapter class the instance is
    constructed,        \* "no" | "yes" | "failed": the outcome of __init__
    connection_config,  \* self.connection_config / self.db_path: key -> value
    conn,               \* self.conn: 0 (never assigned) or a native connection
    cursor,             \* self.cursor: 0, or the connection whose cursor it is
    db,                 \* self.db (document store): 0, or the client it belongs to
    schema,             \* self.schema: [set, info], info the snapshot's entries
    conns,              \* native connection objects ever created, in order
    store,              \* the database: committed catalog and rows
    last                \* the last call: operation, input, outcome, native calls made

vars == <<backend, constructed, connection_config, conn, cursor, db, schema,
          conns, store, last>>

\* An attribute holding a native object holds its index in conns (1, 2, ...);
\* 0 stands for an attribute that was never assigned.
IsSet(x) == x > 0

\* a connection with no transaction open
NoTxn == [active |-> FALSE, tables |-> {}, rows |-> {}, aborted |-> FALSE]
\* self.schema before the first refresh
NoSchema == [set |-> FALSE, info |-> {}]

\* ------------------------------------------------------------ outcomes
Return(type, v) == [kind |-> "return", type |-> type, val |-> v]
Raise(e) == [kind |-> "raise", type |-> "exception", val |-> e]
ReturnNone == Return("none", "None")

Returned(r) == r.kind = "return"
Raised(r) == r.kind = "raise"
ReturnedStatus(r, n) == r.kind = "return" /\ r.type = "status" /\ r.val = n
ReturnedEmptyList(r) == r.kind = "return" /\ r.type = "list" /\ r.val = <<>>

\* statement sequencing: when r raised, the exception propagates; otherwise
\* the rest of the method, K, runs from r
Bind(r, K(_)) == IF r.ret.kind = "raise" THEN r ELSE K(r)
\* try: r  except Exception: return v
Catch(r, v) == IF r.ret.kind = "raise" THEN [st |-> r.st, ret |-> v] ELSE r
\* try: r  except Exception: H (H has the state the exception left)
Except(r, H(_)) == IF r.ret.kind = "raise" THEN H(r.st) ELSE r
Ok(st) == [st |-> st, ret |-> ReturnNone]
Throw(st, e) == [st |-> st, ret |-> Raise(e)]

\* the adapter and its world as one value, so that a method can call another
State ==
    [conn |-> conn, cursor |-> cursor, db |-> db, schema |-> schema,
     conns |-> conns, store |-> store,
     attempts |-> 0, executed |-> <<>>, released |-> 0, discarded |-> {},
     primary |-> "none", refresh |-> "none"]

\* ------------------------------------------------------------ native layer
\* What the drivers (sqlite3, pymysql, psycopg2, pymongo) do when the adapter
\* calls them.  A connection object is [open, curOpen, txn]: txn is the
\* connection's uncommitted working copy of the database.


\* ascending list of a set of row keys (a result set in key order)
RECURSIVE SortedSeq(_)
SortedSeq(S) ==
    IF S = {} THEN <<>>
    ELSE LET m == CHOOSE x \in S : \A y \in S : x <= y
         IN <<m>> \o SortedSeq(S \ {m})


\* ---- relational commands: strings, as sequences of lexical tokens
\* ";" the statement separator, "--" a comment opener, "NL" a line break
\* (whitespace), "WORD" text that is no statement, and the statements.
Semi == [t |-> ";", k |-> 0]
Dash == [t |-> "--", k |-> 0]
NL == [t |-> "NL", k |-> 0]
Word == [t |-> "WORD", k |-> 0]
Create == [t |-> "CREATE", k |-> 0]
Select == [t |-> "SELECT", k |-> 0]
SelectLower == [t |-> "select", k |-> 0]
Insert(k) == [t |-> "INSERT", k |-> k]

IsStatementToken(tok) == tok.t \in {"CREATE", "SELECT", "select", "INSERT"}

\* str.split(';'): the segments between the separators, empty ones included
RECURSIVE Split(_)
Split(s) ==
    IF \A i \in DOMAIN s : s[i] # Semi THEN <<s>>
    ELSE LET i == CHOOSE j \in DOMAIN s :
                      s[j] = Semi /\ \A m \in 1..(j - 1) : s[m] # Semi
         IN <<SubSeq(s, 1, i - 1)>> \o Split(SubSeq(s, i + 1, Len(s)))

\* str.strip(): leading and trailing whitespace removed
RECURSIVE Strip(_)
Strip(s) ==
    IF s = <<>> THEN s
    ELSE IF Head(s) = NL THEN Strip(Tail(s))
    ELSE IF s[Len(s)] = NL THEN Strip(SubSeq(s, 1, Len(s) - 1))
    ELSE s

\* str.startswith('--')
StartsWithDash(s) == s # <<>> /\ Head(s) = Dash

\* str.upper().startswith('SELECT')
UpperStartsWithSelect(s) == s # <<>> /\ Head(s).t \in {"SELECT", "select"}

\* What the SQL engine reads in a string: a "--" comment runs to the end of
\* its line, whitespace separates.  The statement tokens and words left over.
RECURSIVE DropComments(_, _)
DropComments(s, inComment) ==
    IF s = <<>> THEN <<>>
    ELSE IF Head(s) = NL THEN DropComments(Tail(s), FALSE)
    ELSE IF inComment THEN DropComments(Tail(s), TRUE)
    ELSE IF Head(s) = Dash THEN DropComments(Tail(s), TRUE)
    ELSE <<Head(s)>> \o DropComments(Tail(s), FALSE)

\* the statements of a string as the engine sees them: one entry per
\* non-empty ";"-delimited part
NativeStatements(s) ==
    LET parts == Split(s)
        body == [i \in DOMAIN parts |-> DropComments(parts[i], FALSE)]
    IN SelectSeq(body, LAMBDA b : b # <<>>)

\* a part parses when it is exactly one statement
Parses(b) == Len(b) = 1 /\ IsStatementToken(b[1])

\* ---- the database as one connection sees it
View(st, c) ==
    IF st.conns[c].txn.active
    THEN [tables |-> st.conns[c].txn.tables, rows |-> st.conns[c].txn.rows]
    ELSE st.store

\* a usable cursor: its connection is open and the cursor was not closed
CursorUsable(st, c) == st.conns[c].open /\ st.conns[c].curOpen

\* SQLite allows one writer: another open connection with a pending
\* transaction holds the write lock
Locked(st, c) ==
    \E d \in DOMAIN st.conns :
        d # c /\ st.conns[d].open /\ st.conns[d].txn.active

\* a statement's effect on a view: [ok, view, rows, ddl, write]
StatementEffect(v, tok) ==
    CASE tok.t = "CREATE" ->
           [ok |-> UserTable \notin v.tables,
            view |-> [v EXCEPT !.tables = @ \cup {UserTable}],
            rows |-> <<>>, ddl |-> TRUE, write |-> TRUE]
      [] tok.t = "INSERT" ->
           [ok |-> UserTable \in v.tables /\ tok.k \notin v.rows,
            view |-> [v EXCEPT !.rows = @ \cup {tok.k}],
            rows |-> <<>>, ddl |-> FALSE, write |-> TRUE]
      [] OTHER ->
           [ok |-> UserTable \in v.tables,
            view |-> v, rows |-> SortedSeq(v.rows), ddl |-> FALSE, write |-> FALSE]

ActiveTxn(v) == [active |-> TRUE, tables |-> v.tables, rows |-> v.rows, aborted |-> FALSE]

\* the transaction discipline of each driver, applied to a successful
\* statement: sqlite3 opens a transaction before a row write and runs DDL in
\* the open transaction or, when none is open, commits it at once; MySQL
\* commits implicitly at DDL; psycopg2 opens a transaction at any statement.
ApplyEffect(b, st, c, e) ==
    CASE b = "sqlite" ->
           IF ~e.write THEN st
           ELSE IF e.ddl /\ ~st.conns[c].txn.active
           THEN [st EXCEPT !.store = e.view]
           ELSE [st EXCEPT !.conns[c].txn = ActiveTxn(e.view)]
      [] b = "mysql" ->
           IF ~e.write THEN st
           ELSE IF e.ddl
           THEN [st EXCEPT !.store = e.view, !.conns[c].txn = NoTxn]
           ELSE [st EXCEPT !.conns[c].txn = ActiveTxn(e.view)]
      [] OTHER -> [st EXCEPT !.conns[c].txn = ActiveTxn(e.view)]

\* a statement that fails: PostgreSQL marks the transaction aborted
ApplyFailure(b, st, c) ==
    IF b = "postgresql"
    THEN [st EXCEPT !.conns[c].txn =
              [active |-> TRUE, tables |-> View(st, c).tables,
               rows |-> View(st, c).rows, aborted |-> TRUE]]
    ELSE st

\* one statement with effect e on the cursor of connection c: the result is
\* a result set ("rows") or none ("norows"), or the statement raises
ApplyStatement(b, st, c, e) ==
    IF /\ e.ok
       /\ ~(b = "postgresql" /\ st.conns[c].txn.aborted)
       /\ ~(b = "sqlite" /\ e.write /\ Locked(st, c))
    THEN [st |-> ApplyEffect(b, st, c, e),
          ret |-> IF e.write THEN Return("norows", <<>>) ELSE Return("rows", e.rows)]
    ELSE Throw(ApplyFailure(b, st, c), "OperationalError")

RunStatement(b, st, c, tok) == ApplyStatement(b, st, c, StatementEffect(View(st, c), tok))

\* the statements of a script in order, stopping at the first failure
RECURSIVE RunStatements(_, _, _, _)
RunStatements(b, st, c, stmts) ==
    IF stmts = <<>> THEN [st |-> st, ret |-> Return("norows", <<>>)]
    ELSE IF Len(stmts) = 1 THEN RunStatement(b, st, c, stmts[1][1])
    ELSE Bind(RunStatement(b, st, c, stmts[1][1]),
              LAMBDA r : RunStatements(b, r.st, c, Tail(stmts)))

\* the statements at the head of a script that parse
RECURSIVE ParsedPrefix(_)
ParsedPrefix(stmts) ==
    IF stmts = <<>> \/ ~Parses(Head(stmts)) THEN <<>>
    ELSE <<Head(stmts)>> \o ParsedPrefix(Tail(stmts))

\* the engine on the statements of one string.  sqlite3 refuses a string of
\* more than one statement and takes a string of none as a no-op; the
\* servers refuse an empty query and run a script in order (MySQL up to the
\* first statement that does not parse; PostgreSQL parses the whole string
\* first).
ExecuteParsed(b, st, c, stmts, f) ==
    IF ~CursorUsable(st, c) \/ f = "exec" THEN Throw(st, "InterfaceError")
    ELSE CASE b = "sqlite" ->
                IF Len(stmts) > 1 THEN Throw(st, "ProgrammingError")
                ELSE IF stmts = <<>> THEN [st |-> st, ret |-> Return("norows", <<>>)]
                ELSE IF ~Parses(stmts[1]) THEN Throw(st, "OperationalError")
                ELSE RunStatements(b, st, c, stmts)
           [] b = "mysql" ->
                IF stmts = <<>> THEN Throw(st, "ProgrammingError")
                ELSE Bind(RunStatements(b, st, c, ParsedPrefix(stmts)),
                          LAMBDA r : IF \A i \in DOMAIN stmts : Parses(stmts[i]) THEN r
                                     ELSE Throw(r.st, "ProgrammingError"))
           [] OTHER ->
                IF stmts = <<>> THEN Throw(st, "ProgrammingError")
                ELSE IF \E i \in DOMAIN stmts : ~Parses(stmts[i])
                THEN Throw(ApplyFailure(b, st, c), "ProgrammingError")
                ELSE RunStatements(b, st, c, stmts)

\* the outcome of the command's own native call, kept for the record
MarkPrimary(r) == [r EXCEPT !.st.primary = IF r.ret.kind = "raise" THEN "failed" ELSE "ok"]

\* self.cursor.execute(s): reading an unassigned self.cursor raises
CursorExecute(b, st, c, s, f) ==
    IF ~IsSet(c) THEN MarkPrimary(Throw(st, "AttributeError"))
    ELSE MarkPrimary(ExecuteParsed(b, [st EXCEPT !.executed = Append(@, s)], c,
                                   NativeStatements(s), f))

\* cursor.fetchall() after r: psycopg2 raises when there is no result set
FetchAll(b, r) ==
    IF r.ret.type = "rows" THEN [st |-> r.st, ret |-> Return("list", r.ret.val)]
    ELSE IF b = "postgresql" THEN Throw(r.st, "ProgrammingError")
    ELSE [st |-> r.st, ret |-> Return("list", <<>>)]

\* conn.commit(): the working copy becomes the database
ConnCommit(st, c) ==
    IF ~st.conns[c].open THEN Throw(st, "InterfaceError")
    ELSE IF st.conns[c].txn.active /\ ~st.conns[c].txn.aborted
    THEN Ok([st EXCEPT !.store = View(st, c), !.conns[c].txn = NoTxn])
    ELSE Ok([st EXCEPT !.conns[c].txn = NoTxn])

\* conn.rollback(): the working copy is dropped (the rows only it held are
\* recorded as discarded)
ConnRollback(st, c) ==
    IF ~st.conns[c].open THEN Throw(st, "InterfaceError")
    ELSE Ok([st EXCEPT !.conns[c].txn = NoTxn,
                       !.discarded = View(st, c).rows \ st.store.rows])

\* the native connect call (sqlite3.connect, pymysql.connect,
\* psycopg2.connect): returns the new connection
NativeConnect(st, f) ==
    IF f = "connect" THEN Throw([st EXCEPT !.attempts = @ + 1], "OperationalError")
    ELSE [st |-> [st EXCEPT !.attempts = @ + 1,
                            !.conns = Append(@, [open |-> TRUE, curOpen |-> FALSE,
                                                 txn |-> NoTxn])],
          ret |-> Return("connection", Len(st.conns) + 1)]

\* conn.cursor()
NewCursor(st, c) == [st EXCEPT !.conns[c].curOpen = TRUE]

\* cursor.close(); sqlite3 refuses it on a closed connection.  A release of
\* what is already released is counted.
CursorClose(b, st, c) ==
    IF st.conns[c].curOpen /\ st.conns[c].open
    THEN Ok([st EXCEPT !.conns[c].curOpen = FALSE])
    ELSE IF b = "sqlite" /\ ~st.conns[c].open
    THEN Throw([st EXCEPT !.released = @ + 1], "ProgrammingError")
    ELSE Ok([st EXCEPT !.conns[c].curOpen = FALSE, !.released = @ + 1])

\* conn.close(): the pending transaction is lost; pymysql refuses it on a
\* closed connection
ConnClose(b, st, c) ==
    IF st.conns[c].open
    THEN Ok([st EXCEPT !.conns[c].open = FALSE, !.conns[c].txn = NoTxn])
    ELSE IF b = "mysql" THEN Throw([st EXCEPT !.released = @ + 1], "Error")
    ELSE Ok([st EXCEPT !.released = @ + 1])

\* bool(self.conn) of an assigned attribute: the drivers' connection objects
\* define neither __bool__ nor __len__, so every one of them is truthy
Truthy(st, c) == TRUE

\* "if not self.conn: self.connect()", c the outcome of self.connect():
\* reading an unassigned self.conn raises
IfNotConnThenConnect(st, c) ==
    IF ~IsSet(st.conn) THEN Throw(st, "AttributeError")
    ELSE IF ~Truthy(st, st.conn) THEN c
    ELSE Ok(st)

\* ---- the catalog as each refresh reads it
\* PRAGMA table_info / DESCRIBE / information_schema.columns rows of the
\* table of CREATE TABLE t (id INTEGER PRIMARY KEY)
ColumnRows(b) ==
    CASE b = "sqlite" -> << <<"0", "id", "INTEGER", "0", "None", "1">> >>
      [] b = "mysql" -> << <<"id", "int", "NO", "PRI", "None", "auto_increment">> >>
      [] OTHER -> << <<"id", "integer", "NO", "None">> >>

RelationalCatalog(b, v) == {[name |-> n, desc |-> ColumnRows(b)] : n \in v.tables}

\* the snapshot replaced / the refresh raised
Refreshed(st, info) == Ok([st EXCEPT !.refresh = "ok", !.schema = [set |-> TRUE, info |-> info]])
RefreshRaised(st, e) == Throw([st EXCEPT !.refresh = "raised"], e)

\* ------------------------------------------------------------ configuration
ConfigKeys == {"path", "host", "user", "password", "database", "port"}
\* a key of the mapping passed to __init__ is absent, present with an empty
\* (falsy) value, or present with a usable value
ConfigValues == {"absent", "empty", "set"}
StoredKeys == {"path", "host", "user", "password", "database", "dbname", "port"}
NoConfig == [k \in StoredKeys |-> "<none>"]

\* the keys varied in the configurations tried on each backend (the
\* document store's password and database are always left to their defaults)
KeysVaried(b) ==
    CASE b = "sqlite" -> {"path"}
      [] b = "mongodb" -> {"host", "port"}
      [] OTHER -> {"host", "user", "password", "database"}

\* the configurations tried on backend b: keys the constructor does not
\* read are left out, and a port, when given, is an integer
Configs(b) ==
    {cfg \in [ConfigKeys -> ConfigValues] :
        /\ \A k \in ConfigKeys \ KeysVaried(b) : cfg[k] = "absent"
        /\ cfg["port"] # "empty"}

\* __init__: [st, ret, config], config the attributes it stores
SQLiteManager_init(st, cfg) ==
    IF cfg["path"] = "absent" THEN [st |-> st, ret |-> Raise("ValueError"), config |-> NoConfig]
    ELSE IF cfg["path"] = "empty" THEN [st |-> st, ret |-> Raise("ValueError"), config |-> NoConfig]
    ELSE [st |-> st, ret |-> ReturnNone, config |-> [NoConfig EXCEPT !["path"] = cfg["path"]]]

\* a variant whose key check leaves out the password
MySQLManager_init_without_password(st, cfg) ==
    IF \E k \in {"host", "user", "database"} : cfg[k] = "absent"
    THEN [st |-> st, ret |-> Raise("ValueError"), config |-> NoConfig]
    ELSE IF \E k \in {"host", "user", "database"} : cfg[k] = "empty"
    THEN [st |-> st, ret |-> Raise("ValueError"), config |-> NoConfig]
    ELSE [st |-> st, ret |-> ReturnNone,
          config |-> [NoConfig EXCEPT !["host"] = cfg["host"], !["user"] = cfg["user"],
                          !["password"] = cfg["password"],
                          !["database"] = cfg["database"]]]

MySQLManager_init(st, cfg) ==
    IF \E k \in {"host", "user", "password", "database"} : cfg[k] = "absent"
    THEN [st |-> st, ret |-> Raise("ValueError"), config |-> NoConfig]
    ELSE IF \E k \in {"host", "user", "password", "database"} : cfg[k] = "empty"
    THEN [st |-> st, ret |-> Raise("ValueError"), config |-> NoConfig]
    ELSE [st |-> st, ret |-> ReturnNone,
          config |-> [NoConfig EXCEPT !["host"] = cfg["host"], !["user"] = cfg["user"],
                          !["password"] = cfg["password"],
                          !["database"] = cfg["database"]]]

PostgreSQLManager_init(st, cfg) ==
    IF \E k \in {"host", "user", "password", "database"} : cfg[k] = "absent"
    THEN [st |-> st, ret |-> Raise("ValueError"), config |-> NoConfig]
    ELSE IF \E k \in {"host", "user", "password", "database"} : cfg[k] = "empty"
    THEN [st |-> st, ret |-> Raise("ValueError"), config |-> NoConfig]
    ELSE [st |-> st, ret |-> ReturnNone,
          config |-> [NoConfig EXCEPT
              !["dbname"] = IF cfg["database"] # "absent" THEN cfg["database"] ELSE "postgres",
              !["user"] = IF cfg["user"] # "absent" THEN cfg["user"] ELSE "postgres",
              !["password"] = IF cfg["password"] # "absent" THEN cfg["password"] ELSE "",
              !["host"] = IF cfg["host"] # "absent" THEN cfg["host"] ELSE "127.0.0.1"]]

MongoDBManager_init(st, cfg) ==
    IF cfg["host"] = "absent" THEN [st |-> st, ret |-> Raise("ValueError"), config |-> NoConfig]
    ELSE [st |-> st, ret |-> ReturnNone,
          config |-> [NoConfig EXCEPT
              !["host"] = IF cfg["host"] # "absent" THEN cfg["host"] ELSE "127.0.0.1",
              !["port"] = IF cfg["port"] # "absent" THEN cfg["port"] ELSE "'27017'",
              !["password"] = IF cfg["password"] # "absent" THEN cfg["password"] ELSE "",
              !["dbname"] = IF cfg["database"] # "absent" THEN cfg["database"] ELSE "mydb"]]



\* ------------------------------------------------------------ SQLiteManager
SQLiteManager_update_schema_info(st, f) ==
    IF ~IsSet(st.cursor) THEN RefreshRaised(st, "AttributeError")
    ELSE IF ~CursorUsable(st, st.cursor) THEN RefreshRaised(st, "InterfaceError")
    ELSE IF f = "refresh" THEN RefreshRaised(st, "OperationalError")
    ELSE Refreshed(st, RelationalCatalog("sqlite", View(st, st.cursor)))

SQLiteManager_connect(st, f) ==
    Bind(NativeConnect(st, f),
         LAMBDA n :
           SQLiteManager_update_schema_info(
               NewCursor([n.st EXCEPT !.conn = n.ret.val, !.cursor = n.ret.val],
                         n.ret.val), f))

\* a variant that keeps the segments as split, without stripping them
CommandsList_unstripped(call) ==
    SelectSeq(Split(call),
              LAMBDA cmd : Strip(cmd) # <<>> /\ ~StartsWithDash(Strip(cmd)))

\* commands_list of line 154: the segments kept, stripped
CommandsList(call) ==
    LET kept == SelectSeq(Split(call),
                    LAMBDA cmd : Strip(cmd) # <<>> /\ ~StartsWithDash(Strip(cmd)))
    IN [i \in DOMAIN kept |-> Strip(kept[i])]

\* the for loop of lines 155-160; both branches execute the command
RECURSIVE SQLiteExecuteLoop(_, _, _)
SQLiteExecuteLoop(st, commands, f) ==
    IF commands = <<>> THEN Ok(st)
    ELSE Bind(IF UpperStartsWithSelect(Head(commands))
              THEN CursorExecute("sqlite", st, st.cursor, Head(commands), f)
              ELSE CursorExecute("sqlite", st, st.cursor, Head(commands), f),
              LAMBDA r : SQLiteExecuteLoop(r.st, Tail(commands), f))

\* a variant whose except branch rolls the transaction back
SQLiteManager_execute_db_call_rolling_back(st, call, f) ==
    Bind(IfNotConnThenConnect(st, SQLiteManager_connect(st, f)),
         LAMBDA c :
           Except(Bind(SQLiteExecuteLoop(c.st, CommandsList(call), f),
                       LAMBDA r :
                         Bind(SQLiteManager_update_schema_info(r.st, f),
                              LAMBDA u : [st |-> u.st, ret |-> Return("status", 0)])),
                  LAMBDA s : [st |-> ConnRollback(s, s.conn).st,
                              ret |-> Return("status", 1)]))

SQLiteManager_execute_db_call(st, call, f) ==
    Bind(IfNotConnThenConnect(st, SQLiteManager_connect(st, f)),
         LAMBDA c :
           Catch(Bind(SQLiteExecuteLoop(c.st, CommandsList(call), f),
                      LAMBDA r :
                        Bind(SQLiteManager_update_schema_info(r.st, f),
                             LAMBDA u : [st |-> u.st, ret |-> Return("status", 0)])),
                 Return("status", 1)))

SQLiteManager_fetch_db_call(st, call, f) ==
    Bind(IfNotConnThenConnect(st, SQLiteManager_connect(st, f)),
         LAMBDA c :
           Catch(Bind(CursorExecute("sqlite", c.st, c.st.cursor, call, f),
                      LAMBDA r :
                        Bind(FetchAll("sqlite", r),
                             LAMBDA rows :
                               Bind(SQLiteManager_update_schema_info(rows.st, f),
                                    LAMBDA u : [st |-> u.st, ret |-> rows.ret]))),
                 Return("list", <<>>)))

SQLiteManager_commit_db_calls(st, f) ==
    Bind(IfNotConnThenConnect(st, SQLiteManager_connect(st, f)),
         LAMBDA c : ConnCommit(c.st, c.st.conn))

SQLiteManager_close(st) ==
    IF ~IsSet(st.conn) THEN Throw(st, "AttributeError")
    ELSE IF ~Truthy(st, st.conn) THEN Ok(st)
    ELSE IF ~IsSet(st.cursor) THEN Throw(st, "AttributeError")
    ELSE Bind(CursorClose("sqlite", st, st.cursor),
              LAMBDA k : ConnClose("sqlite", k.st, k.st.conn))

\* a variant that calls commit() where the code calls rollback()
SQLiteManager_rollback_db_calls_committing(st, f) ==
    Bind(IfNotConnThenConnect(st, SQLiteManager_connect(st, f)),
         LAMBDA c :
           Bind(ConnCommit(c.st, c.st.conn),
                LAMBDA r :
                  Bind(SQLiteManager_close(r.st),
                       LAMBDA k : SQLiteManager_connect(k.st, f))))

SQLiteManager_rollback_db_calls(st, f) ==
    Bind(IfNotConnThenConnect(st, SQLiteManager_connect(st, f)),
         LAMBDA c :
           Bind(ConnRollback(c.st, c.st.conn),
                LAMBDA r :
                  Bind(SQLiteManager_close(r.st),
                       LAMBDA k : SQLiteManager_connect(k.st, f))))

\* ------------------------------------------------------------ MySQLManager
MySQLManager_update_schema_info(st, f) ==
    IF ~IsSet(st.cursor) THEN RefreshRaised(st, "AttributeError")
    ELSE IF ~CursorUsable(st, st.cursor) THEN RefreshRaised(st, "InterfaceError")
    ELSE IF f = "refresh" THEN RefreshRaised(st, "OperationalError")
    ELSE Refreshed(st, RelationalCatalog("mysql", View(st, st.cursor)))

MySQLManager_connect(st, f) ==
    Bind(NativeConnect(st, f),
         LAMBDA n :
           MySQLManager_update_schema_info(
               NewCursor([n.st EXCEPT !.conn = n.ret.val, !.cursor = n.ret.val],
                         n.ret.val), f))

MySQLManager_execute_db_call(st, call, f) ==
    Bind(IfNotConnThenConnect(st, MySQLManager_connect(st, f)),
         LAMBDA c :
           Catch(Bind(CursorExecute("mysql", c.st, c.st.cursor, call, f),
                      LAMBDA r :
                        Bind(MySQLManager_update_schema_info(r.st, f),
                             LAMBDA u : [st |-> u.st, ret |-> Return("status", 0)])),
                 Return("status", 1)))

MySQLManager_fetch_db_call(st, call, f) ==
    Bind(IfNotConnThenConnect(st, MySQLManager_connect(st, f)),
         LAMBDA c :
           Catch(Bind(CursorExecute("mysql", c.st, c.st.cursor, call, f),
                      LAMBDA r :
                        Bind(FetchAll("mysql", r),
                             LAMBDA rows :
                               Bind(MySQLManager_update_schema_info(rows.st, f),
                                    LAMBDA u : [st |-> u.st, ret |-> rows.ret]))),
                 Return("list", <<>>)))

MySQLManager_commit_db_calls(st, f) ==
    Bind(IfNotConnThenConnect(st, MySQLManager_connect(st, f)),
         LAMBDA c : ConnCommit(c.st, c.st.conn))

MySQLManager_close(st) ==
    IF ~IsSet(st.conn) THEN Throw(st, "AttributeError")
    ELSE IF ~Truthy(st, st.conn) THEN Ok(st)
    ELSE IF ~IsSet(st.cursor) THEN Throw(st, "AttributeError")
    ELSE Bind(CursorClose("mysql", st, st.cursor),
              LAMBDA k : ConnClose("mysql", k.st, k.st.conn))

MySQLManager_rollback_db_calls(st, f) ==
    Bind(IfNotConnThenConnect(st, MySQLManager_connect(st, f)),
         LAMBDA c : ConnRollback(c.st, c.st.conn))

\* ------------------------------------------------------------ PostgreSQLManager
\* the catalog queries run in the connection's transaction, which psycopg2
\* opens at the first statement; in an aborted transaction they fail
PostgreSQLManager_update_schema_info(st, f) ==
    IF ~IsSet(st.cursor) THEN RefreshRaised(st, "AttributeError")
    ELSE IF ~CursorUsable(st, st.cursor) THEN RefreshRaised(st, "InterfaceError")
    ELSE IF f = "refresh" \/ st.conns[st.cursor].txn.aborted
    THEN RefreshRaised(ApplyFailure("postgresql", st, st.cursor), "OperationalError")
    ELSE Refreshed([st EXCEPT !.conns[st.cursor].txn = ActiveTxn(View(st, st.cursor))],
                   RelationalCatalog("postgresql", View(st, st.cursor)))

\* except Exception: close the connection if one was made, print, return
PostgreSQLManager_connect(st, f) ==
    Except(Bind(NativeConnect(st, f),
                LAMBDA n :
                  Except(PostgreSQLManager_update_schema_info(
                             NewCursor([n.st EXCEPT !.conn = n.ret.val,
                                                    !.cursor = n.ret.val],
                                       n.ret.val), f),
                         LAMBDA s : Ok(ConnClose("postgresql", s, n.ret.val).st))),
           LAMBDA s : Ok(s))

PostgreSQLManager_execute_db_call(st, call, f) ==
    Bind(IfNotConnThenConnect(st, PostgreSQLManager_connect(st, f)),
         LAMBDA c :
           Catch(Bind(CursorExecute("postgresql", c.st, c.st.cursor, call, f),
                      LAMBDA r :
                        Bind(PostgreSQLManager_update_schema_info(r.st, f),
                             LAMBDA u : [st |-> u.st, ret |-> Return("status", 0)])),
                 Return("status", 1)))

PostgreSQLManager_fetch_db_call(st, call, f) ==
    Bind(IfNotConnThenConnect(st, PostgreSQLManager_connect(st, f)),
         LAMBDA c :
           Catch(Bind(CursorExecute("postgresql", c.st, c.st.cursor, call, f),
                      LAMBDA r :
                        Bind(FetchAll("postgresql", r),
                             LAMBDA rows :
                               Bind(PostgreSQLManager_update_schema_info(rows.st, f),
                                    LAMBDA u : [st |-> u.st, ret |-> rows.ret]))),
                 Return("list", <<>>)))

PostgreSQLManager_commit_db_calls(st, f) ==
    Bind(IfNotConnThenConnect(st, PostgreSQLManager_connect(st, f)),
         LAMBDA c : ConnCommit(c.st, c.st.conn))

PostgreSQLManager_close(st) ==
    IF ~IsSet(st.conn) THEN Throw(st, "AttributeError")
    ELSE IF ~Truthy(st, st.conn) THEN Ok(st)
    ELSE IF ~IsSet(st.cursor) THEN Throw(st, "AttributeError")
    ELSE Bind(CursorClose("postgresql", st, st.cursor),
              LAMBDA k : ConnClose("postgresql", k.st, k.st.conn))

PostgreSQLManager_rollback_db_calls(st, f) ==
    Bind(IfNotConnThenConnect(st, PostgreSQLManager_connect(st, f)),
         LAMBDA c : ConnRollback(c.st, c.st.conn))

\* ------------------------------------------------------------ MongoDBManager
\* A document is identified by its _id, a key in Rows; the collection of
\* the model is UserTable.  A closed MongoClient refuses every operation
\* (pymongo 4: InvalidOperation).

\* a command string: json tells whether json.loads accepts it; data and
\* query are a document key (0: the field is left out, {} by default);
\* arg is the administrative command of operation "command"
MongoCall(operation, data, query, arg) ==
    [json |-> TRUE, operation |-> operation, collection |-> UserTable,
     data |-> data, query |-> query, arg |-> arg]
MalformedCall == [MongoCall("", 0, 0, "") EXCEPT !.json = FALSE]

Operations ==
    {"aggregate", "insert_one", "insert_many", "find", "find_one", "update_one",
     "update_many", "delete_one", "delete_many", "command"}

\* pymongo.MongoClient(host, port): no server round trip; the constructor
\* rejects an empty host and a port that is not an integer
MongoClient(st, f) ==
    IF connection_config["host"] # "set" \/ connection_config["port"] # "set"
    THEN Throw([st EXCEPT !.attempts = @ + 1], "ConfigurationError")
    ELSE [st |-> [st EXCEPT !.attempts = @ + 1,
                            !.conns = Append(@, [open |-> TRUE, curOpen |-> FALSE,
                                                 txn |-> NoTxn])],
          ret |-> Return("connection", Len(st.conns) + 1)]

\* find_one() of a collection: its first document, or None
Sample(v, n) ==
    IF n = UserTable /\ v.rows # {} THEN <<CHOOSE k \in v.rows : \A j \in v.rows : k <= j>>
    ELSE <<>>

\* a variant that lists the collections without the filter
DocumentCatalog_unfiltered(v) ==
    {[name |-> n, desc |-> Sample(v, n)] : n \in v.tables}

\* list_collection_names(filter = name not starting with "system.")
DocumentCatalog(v) ==
    {[name |-> n, desc |-> Sample(v, n)] : n \in v.tables \ {SystemCollection}}

MongoDBManager_update_schema_info(st, f) ==
    IF ~IsSet(st.db) THEN RefreshRaised(st, "AttributeError")
    ELSE IF ~st.conns[st.db].open THEN RefreshRaised(st, "InvalidOperation")
    ELSE IF f \in {"connect", "refresh"} THEN RefreshRaised(st, "ServerSelectionTimeoutError")
    ELSE Refreshed(st, DocumentCatalog(st.store))

\* except Exception: close the client if one was made, print, return
MongoDBManager_connect(st, f) ==
    Except(Bind(MongoClient(st, f),
                LAMBDA n :
                  Except(MongoDBManager_update_schema_info(
                             [n.st EXCEPT !.conn = n.ret.val, !.db = n.ret.val], f),
                         LAMBDA s : Ok(ConnClose("mongodb", s, n.ret.val).st))),
           LAMBDA s : Ok(s))

\* the documents a query matches: {} matches all, {"_id": k} the one
Matching(v, q) == IF q = 0 THEN v.rows ELSE v.rows \cap {q}
First(S) == IF S = {} THEN {} ELSE {CHOOSE k \in S : \A j \in S : k <= j}

\* the native call of one branch of the dispatch, on the documents m its
\* query matches; ret is what the branch prints or returns
MongoBranch(st, command, m) ==
    CASE command.operation = "aggregate" ->
           [st |-> st, ret |-> Return("list", SortedSeq(st.store.rows))]
      [] command.operation \in {"insert_one", "insert_many"} ->
           IF command.data = 0 \/ command.data \in st.store.rows
           THEN Throw(st, "DuplicateKeyError")
           ELSE [st |-> [st EXCEPT !.store.rows = @ \cup {command.data},
                                   !.store.tables = @ \cup {UserTable}],
                 ret |-> Return(command.operation, <<command.data>>)]
      [] command.operation = "find" ->
           [st |-> st, ret |-> Return("list", SortedSeq(m))]
      [] command.operation = "find_one" ->
           [st |-> st, ret |-> Return("document", SortedSeq(First(m)))]
      [] command.operation = "update_one" ->
           [st |-> st, ret |-> Return("counts", <<Cardinality(First(m))>>)]
      [] command.operation = "update_many" ->
           [st |-> st, ret |-> Return("counts", <<Cardinality(m)>>)]
      [] command.operation = "delete_one" ->
           [st |-> [st EXCEPT !.store.rows = @ \ First(m)],
            ret |-> Return("counts", <<Cardinality(First(m))>>)]
      [] command.operation = "delete_many" ->
           [st |-> [st EXCEPT !.store.rows = @ \ m],
            ret |-> Return("counts", <<Cardinality(m)>>)]
      [] command.operation = "command" ->
           IF command.arg = "profile"
           THEN [st |-> [st EXCEPT !.store.tables = @ \cup {SystemCollection}],
                 ret |-> Return("document", <<>>)]
           ELSE IF command.arg = "ping" THEN [st |-> st, ret |-> Return("document", <<>>)]
           ELSE Throw(st, "OperationFailure")
      [] OTHER -> Throw(st, "ValueError")

\* a variant whose chain has no else branch: an operation it does not know
\* falls through
MongoDispatch_without_else(st, call, f) ==
    IF ~call.json THEN MarkPrimary(Throw(st, "JSONDecodeError"))
    ELSE IF call.operation \notin Operations THEN MarkPrimary(Ok(st))
    ELSE IF ~IsSet(st.db) THEN MarkPrimary(Throw(st, "AttributeError"))
    ELSE IF ~st.conns[st.db].open \/ f = "exec"
    THEN MarkPrimary(Throw([st EXCEPT !.executed = Append(@, call.operation)],
                           "InvalidOperation"))
    ELSE MarkPrimary(MongoBranch([st EXCEPT !.executed = Append(@, call.operation)],
                                 call, Matching(st.store, call.query)))

\* json.loads, then the if / elif chain of the dispatch
MongoDispatch(st, call, f) ==
    IF ~call.json THEN MarkPrimary(Throw(st, "JSONDecodeError"))
    ELSE IF call.operation \notin Operations THEN MarkPrimary(Throw(st, "ValueError"))
    ELSE IF ~IsSet(st.db) THEN MarkPrimary(Throw(st, "AttributeError"))
    ELSE IF ~st.conns[st.db].open \/ f = "exec"
    THEN MarkPrimary(Throw([st EXCEPT !.executed = Append(@, call.operation)],
                           "InvalidOperation"))
    ELSE MarkPrimary(MongoBranch([st EXCEPT !.executed = Append(@, call.operation)],
                                 call, Matching(st.store, call.query)))

MongoDBManager_execute_db_call(st, call, f) ==
    Bind(IfNotConnThenConnect(st, MongoDBManager_connect(st, f)),
         LAMBDA c :
           Catch(Bind(MongoDispatch(c.st, call, f),
                      LAMBDA r :
                        Bind(MongoDBManager_update_schema_info(r.st, f),
                             LAMBDA u : [st |-> u.st, ret |-> Return("status", 0)])),
                 Return("status", 1)))

\* a variant whose branches print their result, as execute_db_call's do
MongoDBManager_fetch_db_call_printing(st, call, f) ==
    Bind(IfNotConnThenConnect(st, MongoDBManager_connect(st, f)),
         LAMBDA c :
           Catch(Bind(MongoDispatch(c.st, call, f),
                      LAMBDA r :
                        Bind(MongoDBManager_update_schema_info(r.st, f),
                             LAMBDA u : [st |-> u.st, ret |-> Return("status", 0)])),
                 Return("status", 1)))

\* every branch returns its result at once: lines 628-629 are never reached
MongoDBManager_fetch_db_call(st, call, f) ==
    Bind(IfNotConnThenConnect(st, MongoDBManager_connect(st, f)),
         LAMBDA c : Catch(MongoDispatch(c.st, call, f), Return("status", 1)))

\* a variant that opens with the relational adapters' connection check
MongoDBManager_commit_db_calls_checking_conn(st, f) ==
    Bind(IfNotConnThenConnect(st, MongoDBManager_connect(st, f)),
         LAMBDA c : Ok(c.st))

MongoDBManager_commit_db_calls(st, f) == Ok(st)

MongoDBManager_rollback_db_calls(st, f) == Ok(st)

MongoDBManager_close(st) ==
    IF ~IsSet(st.conn) THEN Throw(st, "AttributeError")
    ELSE IF ~Truthy(st, st.conn) THEN Ok(st)
    ELSE ConnClose("mongodb", st, st.conn)

\* the keys each __init__ refuses to go without
RequiredKeys(b) ==
    CASE b = "sqlite" -> {"path"}
      [] b = "mongodb" -> {"host"}
      [] OTHER -> {"host", "user", "password", "database"}

\* the catalog a refresh of adapter b would read in state st
Catalog(b, st) ==
    IF b = "mongodb" THEN DocumentCatalog(st.store)
    ELSE RelationalCatalog(b, View(st, st.cursor))

\* ------------------------------------------------------------ DBManager
\* The common interface: each call goes to the method of the adapter's class.
init(b, st, cfg) ==
    CASE b = "sqlite" -> SQLiteManager_init(st, cfg)
      [] b = "mysql" -> MySQLManager_init(st, cfg)
      [] b = "postgresql" -> PostgreSQLManager_init(st, cfg)
      [] OTHER -> MongoDBManager_init(st, cfg)

connect(b, st, f) ==
    CASE b = "sqlite" -> SQLiteManager_connect(st, f)
      [] b = "mysql" -> MySQLManager_connect(st, f)
      [] b = "postgresql" -> PostgreSQLManager_connect(st, f)
      [] OTHER -> MongoDBManager_connect(st, f)

execute_db_call(b, st, call, f) ==
    CASE b = "sqlite" -> SQLiteManager_execute_db_call(st, call, f)
      [] b = "mysql" -> MySQLManager_execute_db_call(st, call, f)
      [] b = "postgresql" -> PostgreSQLManager_execute_db_call(st, call, f)
      [] OTHER -> MongoDBManager_execute_db_call(st, call, f)

fetch_db_call(b, st, call, f) ==
    CASE b = "sqlite" -> SQLiteManager_fetch_db_call(st, call, f)
      [] b = "mysql" -> MySQLManager_fetch_db_call(st, call, f)
      [] b = "postgresql" -> PostgreSQLManager_fetch_db_call(st, call, f)
      [] OTHER -> MongoDBManager_fetch_db_call(st, call, f)

commit_db_calls(b, st, f) ==
    CASE b = "sqlite" -> SQLiteManager_commit_db_calls(st, f)
      [] b = "mysql" -> MySQLManager_commit_db_calls(st, f)
      [] b = "postgresql" -> PostgreSQLManager_commit_db_calls(st, f)
      [] OTHER -> MongoDBManager_commit_db_calls(st, f)

rollback_db_calls(b, st, f) ==
    CASE b = "sqlite" -> SQLiteManager_rollback_db_calls(st, f)
      [] b = "mysql" -> MySQLManager_rollback_db_calls(st, f)
      [] b = "postgresql" -> PostgreSQLManager_rollback_db_calls(st, f)
      [] OTHER -> MongoDBManager_rollback_db_calls(st, f)

close(b, st) ==
    CASE b = "sqlite" -> SQLiteManager_close(st)
      [] b = "mysql" -> MySQLManager_close(st)
      [] b = "postgresql" -> PostgreSQLManager_close(st)
      [] OTHER -> MongoDBManager_close(st)

\* what a row of each adapter's snapshot says of its column: a PRAGMA
\* table_info row is (cid, name, type, notnull, dflt_value, pk), a DESCRIBE
\* row (Field, Type, Null, Key, Default, Extra), an information_schema row of
\* the refresh (column_name, data_type, is_nullable, column_default), which
\* does not tell the key (the model's one column is its table's primary key)
ColumnFacts(b, row) ==
    CASE b = "sqlite" ->
           [column_name |-> row[2], column_type |-> row[3],
            not_nullable |-> row[4] = "1", primary_key |-> row[6] # "0"]
      [] b = "mysql" ->
           [column_name |-> row[1], column_type |-> row[2],
            not_nullable |-> row[3] = "NO", primary_key |-> row[4] = "PRI"]
      [] OTHER ->
           [column_name |-> row[1], column_type |-> row[2],
            not_nullable |-> row[3] = "NO", primary_key |-> TRUE]

\* ---- get_schema_as_string (defined once, in the base class)
\* one "- Column ..." line: the row is unpacked into six names, of which the
\* first four are used
ColumnLine(row) ==
    [column_name |-> row[1], column_type |-> row[2],
     not_nullable |-> row[3] = "NO", primary_key |-> row[4] = "PRI"]

\* the text, as the set of its "Table ..." blocks with their column lines
SchemaText(info) ==
    {[table |-> e.name, columns |-> [i \in DOMAIN e.desc |-> ColumnLine(e.desc[i])]] :
        e \in info}

\* iterating a collection's sample: None is not iterable, and a document
\* yields its keys, strings that do not unpack into six names
get_schema_as_string(b, st) ==
    IF ~st.schema.set THEN Throw(st, "AttributeError")
    ELSE IF b = "mongodb"
    THEN IF \E e \in st.schema.info : e.desc = <<>> THEN Throw(st, "TypeError")
         ELSE IF st.schema.info # {} THEN Throw(st, "ValueError")
         ELSE [st |-> st, ret |-> Return("text", {})]
    ELSE IF \E e \in st.schema.info : \E i \in DOMAIN e.desc : Len(e.desc[i]) # 6
    THEN Throw(st, "ValueError")
    ELSE [st |-> st, ret |-> Return("text", SchemaText(st.schema.info))]

\* ------------------------------------------------------------ inputs
\* the command strings given to the relational adapters
SqlCalls ==
    {<<Create>>, <<Select>>, <<Dash, Word>>, <<Create, Semi, Word>>,
     <<Create, Semi, Insert(1), Semi>>, <<Dash, Word, NL, Create>>,
     <<Insert(MaxRows), Semi, Word, Semi, Create>>,
     <<NL, Insert(1), NL, Semi, NL, Semi, Dash, Word, Semi, SelectLower>>}
    \cup {<<Insert(k)>> : k \in Rows}

\* the command strings given to the document adapter
MongoCalls ==
    {MalformedCall, MongoCall("bogus", 0, 0, ""), MongoCall("aggregate", 0, 0, ""),
     MongoCall("command", 0, 0, "ping"), MongoCall("command", 0, 0, "profile")}
    \cup {MongoCall("insert_one", k, 0, "") : k \in Rows}
    \cup {MongoCall("insert_many", MaxRows, 0, "")}
    \cup {MongoCall(op, 0, 0, "") : op \in {"find", "update_many", "delete_many"}}
    \cup {MongoCall("find_one", 0, MaxRows, "")}
    \cup {MongoCall(op, 0, 1, "") : op \in {"update_one", "delete_one"}}

Calls(b) == IF b = "mongodb" THEN MongoCalls ELSE SqlCalls

\* the commands during which a driver fault is tried
FaultedCalls(b) ==
    IF b = "mongodb"
    THEN {MongoCall("insert_one", MaxRows, 0, ""), MongoCall("find", 0, 0, "")}
    ELSE {<<Create, Semi, Insert(1), Semi>>, <<Select>>}

\* a command and the place where the driver fails during it
Inputs(b) ==
    {<<call, "none">> : call \in Calls(b)}
    \cup {<<call, f>> : call \in FaultedCalls(b), f \in {"exec", "refresh"}}

\* the commands given to fetch_db_call
FetchCalls(b) ==
    IF b = "mongodb" THEN MongoCalls
    ELSE {<<Select>>, <<Create>>, <<Dash, Word>>, <<Insert(MaxRows)>>,
          <<Create, Semi, Insert(1), Semi>>}
FetchInputs(b) ==
    {<<call, "none">> : call \in FetchCalls(b)}
    \cup {<<call, f>> : call \in FaultedCalls(b) \cap FetchCalls(b), f \in {"exec", "refresh"}}

NoCall(b) == IF b = "mongodb" THEN MalformedCall ELSE <<>>

\* the databases an adapter may be pointed at
InitialStores ==
    {[tables |-> {}, rows |-> {}], [tables |-> {UserTable}, rows |-> {1}]}

\* ------------------------------------------------------------ actions
Init ==
    /\ backend \in Backends
    /\ constructed = "no"
    /\ connection_config = NoConfig
    /\ conn = 0 /\ cursor = 0 /\ db = 0
    /\ schema = NoSchema
    /\ conns = <<>>
    /\ store \in InitialStores
    /\ last = [op |-> "none", call |-> NoCall(backend),
               cfg |-> [k \in ConfigKeys |-> "absent"],
               ret |-> ReturnNone, attempts |-> 0, executed |-> <<>>, released |-> 0,
               discarded |-> {}, primary |-> "none", refresh |-> "none"]

\* A connection object the adapter no longer references cannot be used
\* again.  Once closed it is garbage: it is dropped and the later objects are
\* renumbered.  While open, of its state only whether it holds a pending
\* transaction can still matter.
Unreferenced(st, i) == i # st.conn /\ i # st.cursor /\ i # st.db
Garbage(st, i) == Unreferenced(st, i) /\ ~st.conns[i].open
Renumbered(st, i) == i - Cardinality({j \in 1..i : Garbage(st, j)})
Forgotten(st, i) ==
    IF Unreferenced(st, i)
    THEN [open |-> TRUE, curOpen |-> FALSE,
          txn |-> IF st.conns[i].txn.active THEN ActiveTxn([tables |-> {}, rows |-> {}])
                  ELSE NoTxn]
    ELSE st.conns[i]
RECURSIVE ForgetFrom(_, _)
ForgetFrom(st, i) ==
    IF i > Len(st.conns) THEN <<>>
    ELSE IF Garbage(st, i) THEN ForgetFrom(st, i + 1)
    ELSE <<Forgotten(st, i)>> \o ForgetFrom(st, i + 1)
Forget(st) == ForgetFrom(st, 1)

\* the state a method leaves, and the record of the call
Finish(op, cfg, call, r) ==
    /\ conns' = Forget(r.st)
    /\ Len(conns') <= MaxConnects
    /\ conn' = Renumbered(r.st, r.st.conn)
    /\ cursor' = Renumbered(r.st, r.st.cursor)
    /\ db' = Renumbered(r.st, r.st.db)
    /\ schema' = r.st.schema
    /\ store' = r.st.store
    /\ last' = [op |-> op, cfg |-> cfg, call |-> call, ret |-> r.ret,
                attempts |-> r.st.attempts, executed |-> r.st.executed,
                released |-> r.st.released, discarded |-> r.st.discarded,
                primary |-> r.st.primary, refresh |-> r.st.refresh]
    /\ UNCHANGED backend

Constructed(cfg, r) ==
    \E x \in {r} :
      /\ constructed' = IF Raised(x.ret) THEN "failed" ELSE "yes"
      /\ connection_config' = x.config
      /\ Finish("init", cfg, NoCall(backend), x)

Construct ==
    /\ constructed = "no"
    /\ \E cfg \in Configs(backend) : Constructed(cfg, init(backend, State, cfg))

\* a call of a method of the constructed adapter
Call(op, call, r) ==
    /\ constructed = "yes"
    /\ \E x \in {r} : Finish(op, last.cfg, call, x)
    /\ UNCHANGED <<constructed, connection_config>>

Connect ==
    \E f \in {"none", "connect", "refresh"} :
      Call("connect", NoCall(backend), connect(backend, State, f))

Execute ==
    \E in \in Inputs(backend) :
      Call("execute", in[1], execute_db_call(backend, State, in[1], in[2]))

Fetch ==
    \E in \in FetchInputs(backend) :
      Call("fetch", in[1], fetch_db_call(backend, State, in[1], in[2]))

Commit ==
    Call("commit", NoCall(backend), commit_db_calls(backend, State, "none"))

Rollback ==
    \E f \in {"none", "connect", "refresh"} :
      Call("rollback", NoCall(backend), rollback_db_calls(backend, State, f))

Close ==
    Call("close", NoCall(backend), close(backend, State))

Describe ==
    Call("describe", NoCall(backend), get_schema_as_string(backend, State))

\* The runtime finalises a connection object nothing references, at a time
\* of its choosing: the connection closes and its transaction is lost.
Finalised(i) ==
    [State EXCEPT !.conns[i] = [open |-> FALSE, curOpen |-> FALSE, txn |-> NoTxn]]

Collect ==
    \E i \in DOMAIN conns :
      /\ Unreferenced(State, i) /\ conns[i].open
      /\ Call("collect", NoCall(backend), Ok(Finalised(i)))

Next ==
    \/ Construct
    \/ Connect
    \/ Execute
    \/ Fetch
    \/ Commit
    \/ Rollback
    \/ Close
    \/ Describe
    \/ Collect

Spec == Init /\ [][Next]_vars

\* ------------------------------------------------------------ properties
\* C1: a constructed adapter on which nothing was called yet connects lazily:
\* execute_db_call and fetch_db_call (on the relational adapters also
\* commit_db_calls and rollback_db_calls) make the native connect call and
\* assign the handle, instead of failing on the absent handle.
C1_LazyConnectOnFirstUse ==
    [][(/\ constructed = "yes" /\ last.op = "init"
        /\ \/ last'.op \in {"execute", "fetch"}
           \/ backend # "mongodb" /\ last'.op \in {"commit", "rollback"})
       => /\ last'.attempts >= 1
          /\ IsSet(conn')
          /\ ~(Raised(last'.ret) /\ last'.ret.val = "AttributeError")]_vars

\* C2: after a close() that returned, the next execute_db_call,
\* fetch_db_call, commit_db_calls or rollback_db_calls (the last two on the
\* relational adapters) opens a new native connection, and when it returns
\* the handle is open.
C2_ReconnectAfterClose ==
    [][(/\ last.op = "close" /\ Returned(last.ret)
        /\ IsSet(conn) /\ ~conns[conn].open
        /\ \/ last'.op \in {"execute", "fetch"}
           \/ backend # "mongodb" /\ last'.op \in {"commit", "rollback"})
       => /\ last'.attempts >= 1
          /\ Returned(last'.ret) => conns'[conn'].open]_vars

\* C3: close() on an adapter that was never connected, or whose handle is
\* already closed, returns None, makes no release call on a released cursor
\* or connection, and changes nothing.
C3_CloseIdempotent ==
    [][(/\ constructed = "yes" /\ last'.op = "close"
        /\ (~IsSet(conn) \/ ~conns[conn].open))
       => /\ last'.ret = ReturnNone
          /\ last'.released = 0
          /\ UNCHANGED <<conn, cursor, db, schema, conns, store>>]_vars

\* C4: a construction from a configuration that lacks a required key raises
\* the configuration error (ValueError) and makes no native connect call:
\* no connection object exists and the handle stays unassigned.
C4_MissingKeyFailsConstruction ==
    (last.op = "init" /\ \E k \in RequiredKeys(backend) : last.cfg[k] = "absent")
    => /\ Raised(last.ret) /\ last.ret.val = "ValueError"
       /\ constructed = "failed"
       /\ last.attempts = 0 /\ conns = <<>> /\ ~IsSet(conn)

C4_Witness ==
    /\ backend = "mysql" /\ last.op = "init"
    /\ last.cfg["password"] = "absent"
    /\ \A k \in {"host", "user", "database"} : last.cfg[k] = "set"
    /\ Raised(last.ret) /\ last.attempts = 0

\* C5: on a connected adapter execute_db_call returns the status 0 or 1 and
\* nothing else, 0 exactly when no statement of the command met a native
\* error and 1 exactly when one did.
C5_StatusIffNativeError ==
    [][(last'.op = "execute" /\ IsSet(conn) /\ conns[conn].open)
       => /\ ReturnedStatus(last'.ret, 0) \/ ReturnedStatus(last'.ret, 1)
          /\ ReturnedStatus(last'.ret, 0) <=> last'.primary # "failed"]_vars

C7_FetchReturnsEmptyListOnError ==
    (last.op = "fetch" /\ last.primary = "failed") => ReturnedEmptyList(last.ret)

\* C8: when an execute_db_call or fetch_db_call returns, the snapshot was
\* refreshed by the call and equals the catalog seen on the connection.
C8_SnapshotRefreshedAfterEveryCall ==
    (last.op \in {"execute", "fetch"} /\ Returned(last.ret))
    => /\ last.refresh = "ok"
       /\ schema = [set |-> TRUE, info |-> Catalog(backend, State)]

\* C9: a SQLiteManager.rollback_db_calls that returns leaves the database
\* as committed (the pending writes are gone, the committed rows remain),
\* and the adapter with a new open handle, a usable cursor, no transaction
\* and the snapshot of the committed catalog; a fetch of the table right
\* after it returns the committed rows.
C9_RollbackDiscardsUncommitted ==
    [][/\ (backend = "sqlite" /\ last'.op = "rollback" /\ Returned(last'.ret))
          => /\ store' = store
             /\ last'.discarded = View(State, conn).rows \ store.rows
             /\ last'.attempts = 1 /\ IsSet(conn') /\ cursor' = conn'
             /\ conns'[conn'].open /\ conns'[conn'].curOpen
             /\ conns'[conn'].txn = NoTxn
             /\ schema' = [set |-> TRUE, info |-> RelationalCatalog("sqlite", store)]
       /\ (/\ backend = "sqlite" /\ last.op = "rollback" /\ Returned(last.ret)
           /\ last'.op = "fetch" /\ last'.call = <<Select>>
           /\ last'.primary = "ok" /\ last'.refresh = "ok")
          => last'.ret = Return("list", SortedSeq(store.rows))]_vars

C9_Witness ==
    /\ backend = "sqlite" /\ last.op = "rollback" /\ Returned(last.ret)
    /\ last.discarded # {}
    /\ store.rows = {1}
    /\ conns[conn].open /\ schema.info = RelationalCatalog("sqlite", store)

\* C10: MongoDBManager.commit_db_calls and rollback_db_calls return None in
\* every state of the adapter and change nothing: the documents, the handle
\* and the snapshot are as before.
C10_DocumentCommitRollbackNoOp ==
    [][(backend = "mongodb" /\ constructed = "yes" /\ last'.op \in {"commit", "rollback"})
       => /\ last'.ret = ReturnNone
          /\ UNCHANGED <<conn, cursor, db, schema, conns, store>>]_vars

C10_Witness ==
    /\ backend = "mongodb" /\ last.op \in {"commit", "rollback"}
    /\ last.ret = ReturnNone
    /\ IsSet(conn) /\ conns[conn].open
    /\ Cardinality(store.rows) > 1

\* C11: on a connected document adapter, execute_db_call of a command whose
\* operation is none of the ten the dispatch knows returns 1, makes no
\* native call, and leaves the snapshot (and the documents) as they were.
C11_UnknownOperationFails ==
    [][(/\ backend = "mongodb" /\ IsSet(conn) /\ conns[conn].open
        /\ last'.op = "execute"
        /\ last'.call.json /\ last'.call.operation \notin Operations)
       => /\ ReturnedStatus(last'.ret, 1)
          /\ last'.executed = <<>>
          /\ schema' = schema /\ store' = store]_vars

C11_Witness ==
    /\ backend = "mongodb" /\ last.op = "execute"
    /\ last.call.json /\ last.call.operation = "bogus"
    /\ ReturnedStatus(last.ret, 1)
    /\ IsSet(conn) /\ conns[conn].open
    /\ schema.set /\ schema.info # {}

C13_ConnectFailureRaised ==
    (last.op = "connect" /\ last.refresh # "ok") => Raised(last.ret)

\* C14: on a relational adapter with a usable cursor, execute_db_call of a
\* command that is only a comment line hands nothing to the cursor, leaves
\* the stored data as it was and returns 0.
C14_CommentOnlyNoOp ==
    [][(/\ backend # "mongodb"
        /\ IsSet(cursor) /\ CursorUsable(State, cursor) /\ ~conns[cursor].txn.aborted
        /\ last'.op = "execute" /\ last'.call = <<Dash, Word>>)
       => /\ ReturnedStatus(last'.ret, 0)
          /\ last'.executed = <<>>
          /\ store' = store]_vars

C16_PostgresDefaults ==
    (/\ backend = "postgresql" /\ last.op = "init"
     /\ \A k \in {"host", "user", "password", "database"} : last.cfg[k] # "empty")
    => /\ Returned(last.ret) /\ constructed = "yes"
       /\ connection_config["dbname"] =
            IF last.cfg["database"] = "absent" THEN "postgres" ELSE last.cfg["database"]
       /\ connection_config["user"] =
            IF last.cfg["user"] = "absent" THEN "postgres" ELSE last.cfg["user"]
       /\ connection_config["password"] =
            IF last.cfg["password"] = "absent" THEN "" ELSE last.cfg["password"]
       /\ connection_config["host"] =
            IF last.cfg["host"] = "absent" THEN "127.0.0.1" ELSE last.cfg["host"]

\* C17: a construction from a configuration in which a required key (SQLite
\* path; MySQL host, user, password, database; MongoDB host) is present with
\* an empty value raises the configuration error.
C17_EmptyRequiredValueRejected ==
    (/\ last.op = "init" /\ backend \in {"sqlite", "mysql", "mongodb"}
     /\ \E k \in RequiredKeys(backend) : last.cfg[k] = "empty")
    => /\ Raised(last.ret) /\ last.ret.val = "ValueError"
       /\ constructed = "failed"

\* C18: at most one native connection opened by the adapter is open.
C18_SingleOpenConnection ==
    Cardinality({i \in DOMAIN conns : conns[i].open}) <= 1

\* C19: for the snapshot a relational adapter's refresh produced,
\* get_schema_as_string returns, per table, the table's name and one line
\* per column giving the column's name and type, with "not nullable" exactly
\* when the column is not nullable and "primary key" exactly when it is a
\* primary key.
C19_SchemaTextStatesColumns ==
    (backend # "mongodb" /\ last.op = "describe" /\ schema.set)
    => /\ Returned(last.ret) /\ last.ret.type = "text"
       /\ last.ret.val =
            {[table |-> e.name,
              columns |-> [i \in DOMAIN e.desc |-> ColumnFacts(backend, e.desc[i])]] :
                e \in schema.info}

\* C20: SQLiteManager.execute_db_call hands to the cursor, once each and in
\* order, the trimmed ";"-separated segments of the command that are not
\* empty after trimming and do not start with "--" (up to the first that
\* fails; all of them when none fails), a leading select in any case
\* included, and returns a status code.
C20_SegmentsExecutedInOrder ==
    (backend = "sqlite" /\ last.op = "execute")
    => LET segs == Split(last.call)
           kept == {i \in DOMAIN segs :
                      Strip(segs[i]) # <<>> /\ Head(Strip(segs[i])) # Dash}
       IN /\ Len(last.executed) <= Cardinality(kept)
          /\ \A n \in 1..Len(last.executed) :
               \E i \in kept :
                 /\ Cardinality({j \in kept : j <= i}) = n
                 /\ last.executed[n] = Strip(segs[i])
          /\ (Returned(last.ret) /\ last.primary # "failed")
               => Len(last.executed) = Cardinality(kept)
          /\ Returned(last.ret) => last.ret.type = "status"

C20_Witness ==
    /\ backend = "sqlite" /\ last.op = "execute"
    /\ last.call = <<NL, Insert(1), NL, Semi, NL, Semi, Dash, Word, Semi, SelectLower>>
    /\ last.executed = << <<Insert(1)>>, <<SelectLower>> >>
    /\ ReturnedStatus(last.ret, 0)

\* C21: in execute_db_call of a relational adapter with a usable cursor, a
\* "--" comment discards only its own line: when the first segment of the
\* command opens with a comment line and holds a statement on a later line,
\* that statement is handed to the cursor.
C21_CommentDropsOnlyItsLine ==
    [][(/\ backend # "mongodb"
        /\ IsSet(cursor) /\ CursorUsable(State, cursor) /\ ~conns[cursor].txn.aborted
        /\ last'.op = "execute"
        /\ StartsWithDash(Strip(Split(last'.call)[1]))
        /\ DropComments(Split(last'.call)[1], FALSE) # <<>>)
       => \E n \in DOMAIN last'.executed :
            DropComments(last'.executed[n], FALSE)
              = DropComments(Split(last'.call)[1], FALSE)]_vars

\* C22: an execute_db_call whose command succeeded and whose schema refresh
\* then raised returns the status of the command, 0.
C22_RefreshFailureNotReported ==
    (last.op = "execute" /\ last.primary = "ok" /\ last.refresh = "raised")
    => ReturnedStatus(last.ret, 0)

\* C23: when connect() of the PostgreSQL or document adapter fails after the
\* native connection object was made (the first refresh raised), the adapter
\* is not left holding the released connection, and the execute_db_call or
\* fetch_db_call that follows makes a native connect call.
C23_FailedConnectLeavesNoHandle ==
    [][/\ (/\ backend \in {"postgresql", "mongodb"}
           /\ last'.op = "connect" /\ last'.refresh = "raised")
          => ~(IsSet(conn') /\ ~conns'[conn'].open)
       /\ (/\ backend \in {"postgresql", "mongodb"}
           /\ last.op = "connect" /\ last.refresh = "raised"
           /\ last'.op \in {"execute", "fetch"})
          => last'.attempts >= 1]_vars

\* C24: on the MySQL and PostgreSQL adapters, a rollback_db_calls that
\* returns, called when the snapshot was that of the connection's catalog,
\* leaves the snapshot equal to the catalog seen on the connection after it:
\* a table that the rollback removed is no longer listed.
C24_SnapshotFollowsRollback ==
    [][(/\ backend \in {"mysql", "postgresql"}
        /\ IsSet(cursor) /\ schema.set
        /\ schema.info = Catalog(backend, State)
        /\ last'.op = "rollback" /\ Returned(last'.ret))
       => /\ schema'.set
          /\ {e.name : e \in schema'.info} =
               IF conns'[cursor'].txn.active THEN conns'[cursor'].txn.tables
               ELSE store'.tables]_vars

====
